---- MODULE Spec2Model ----
(***************************************************************************)
(* Model of src/src/server.ts: the Discord message handler, the            *)
(* per-channel message batching (addMessageToBatch / drainMessageBatch),   *)
(* the immediate dispatch (processAndSendMessage) and the random event     *)
(* timer (startRandomEventTimer).                                          *)
(*                                                                         *)
(* Node runs every callback to its next await without interleaving, so     *)
(* each action below is one callback or one continuation: from its entry   *)
(* (an event, a timeout, a settled promise) to the next await or its end.  *)
(***************************************************************************)
EXTENDS Integers, Sequences, FiniteSets, TLC

\* ---------------------------------------------------------------- bounds
\* Number of messageCreate events one behaviour delivers.
MaxEvents == 3
\* The configured batch size (server.ts:20, default 10).
MESSAGE_BATCH_SIZE == 3
\* The configured batch timeout (server.ts:21, default 30000 ms), in clock ticks.
MESSAGE_BATCH_TIMEOUT_MS == 2

\* Ages of buffer entries are counted up to one tick past the batch timeout.
AgeCap == MESSAGE_BATCH_TIMEOUT_MS + 1

\* ---------------------------------------------------------------- values
\* An unset environment variable (process.env.X is undefined).
None == "none"
\* Channel ids: two guild channels and one DM channel (message.guild === null).
GuildChannels == {"c1", "c2"}
DMChannels == {"dm"}
Channels == GuildChannels \cup DMChannels
\* Channels on which the environment delivers messages.
MsgChannels == {"c1", "dm"}

\* MessageType of ./messages (imported at server.ts:4).
DM == "DM"
MENTION == "MENTION"
REPLY == "REPLY"
GENERIC == "GENERIC"

\* What the handler reads of a Message: channel, author (the bot itself,
\* another bot, a user), content.startsWith('!'), mentions.has(client.user),
\* and message.reference: none, a reference without messageId, or a
\* reference whose original message was written by the bot or by someone else.
Authors == {"self", "bot", "user"}
Refs == {"none", "noid", "bot", "other"}
AllMessages ==
  [ch : MsgChannels, author : Authors, bang : BOOLEAN, mentions : BOOLEAN, ref : Refs]

\* The messages the environment delivers under Spec: one of the bot's own, a
\* plain DM, and in the guild channel a mention and a reply to the bot.
Messages ==
  { m \in AllMessages :
      /\ ~m.bang /\ m.author # "bot" /\ m.ref \in {"none", "bot"}
      /\ (m.mentions <=> (m.ch \notin DMChannels /\ m.ref = "none" /\ m.author # "self"))
      /\ (m.author = "self" \/ m.ch \in DMChannels) => m.ref = "none"
      /\ m.author = "self" => m.ch \notin DMChannels }

\* What sendMessage and sendTimerMessage (./messages, server.ts:4) resolve to:
\* "" (no reply) or a response text.
Responses == {"", "hi"}

\* The agent call of ./messages can also fail: it throws or rejects.
BackendMayReject == TRUE

VARIABLES
  cfg,                    \* the environment read at server.ts:8-21
  received,               \* number of messageCreate events so far; the n-th message has id n
  handlers,               \* the messageCreate handlers suspended at an await
  channelMessageBuffers,  \* server.ts:55, Map channelId -> BatchedMessage[]
  channelBatchTimers,     \* server.ts:56, Map channelId -> handle of its timeout
  timeouts,               \* the timeouts armed by setTimeout at server.ts:152 and neither
                          \* fired nor cleared: handle -> channel and ticks left
  drains,                 \* the calls of drainMessageBatch suspended at an await
  discarded,              \* history: channels where a non-empty response was not sent
  unhandled,              \* history: a rejection left an async callback uncaught
  waiting,                \* history: messages added to a batch and in no drain's payload yet
  window,                 \* history: per channel, the enqueues chained by a pending timer
  timerPc,                \* startRandomEventTimer: position of the timer process
  timerDelay,             \* minutes left until the timer callback runs
  timerChannel            \* the `channel` local of the timer callback is defined

msgVars == <<received, handlers, channelMessageBuffers, channelBatchTimers, timeouts, drains,
             discarded, waiting, window>>
timerVars == <<timerPc, timerDelay, timerChannel>>
vars == <<cfg, unhandled, msgVars, timerVars>>

\* Math.random() is n / RandDen for some n in 0..RandDen-1.
RandDen == 2

\* ---------------------------------------------------------- configuration
\* server.ts:9-21. Every option is fixed for the lifetime of the process.
Configs ==
  [ batchEnabled      : BOOLEAN,            \* MESSAGE_BATCH_ENABLED
    responseChannel   : {None, "c1", "c2"}, \* DISCORD_RESPONSE_CHANNEL_ID
    channelId         : {None, "c1"},       \* DISCORD_CHANNEL_ID
    respondToDMs      : BOOLEAN,            \* RESPOND_TO_DMS
    respondToMentions : BOOLEAN,            \* RESPOND_TO_MENTIONS
    respondToBots     : BOOLEAN,            \* RESPOND_TO_BOTS
    respondToGeneric  : BOOLEAN,            \* RESPOND_TO_GENERIC
    enableTimer       : BOOLEAN,            \* ENABLE_TIMER
    timerInterval     : {0, 1, 3},          \* TIMER_INTERVAL_MINUTES
    firingProbability : 0..RandDen ]        \* FIRING_PROBABILITY, in units of 1/RandDen

\* Configurations of the message specification: every kind of message is
\* answered, the timer is off.
MsgConfigs ==
  { c \in Configs :
      /\ ~c.enableTimer /\ c.timerInterval = 3 /\ c.firingProbability = 1
      /\ c.respondToDMs /\ c.respondToMentions /\ c.respondToGeneric
      /\ ~c.respondToBots
      /\ c.channelId = None
      /\ c.responseChannel \in {None, "c1"} }

\* Configurations of the timer specification: the timer is on, no batching.
TimerConfigs ==
  { c \in Configs :
      /\ c.enableTimer
      /\ c.respondToDMs /\ c.respondToMentions /\ c.respondToGeneric
      /\ ~c.respondToBots /\ ~c.batchEnabled }

\* ------------------------------------------------------------ pure helpers
\* server.ts:15
MESSAGE_REPLY_TRUNCATE_LENGTH == 100

\* A string is the sequence of its characters; Str(n) has n characters
Str(n) == [i \in 1..n |-> "x"]

\* The contents a fetched original message can have: shorter than, as long
\* as, and longer than MESSAGE_REPLY_TRUNCATE_LENGTH
Originals ==
  { Str(2), Str(MESSAGE_REPLY_TRUNCATE_LENGTH), Str(MESSAGE_REPLY_TRUNCATE_LENGTH + 1) }

\* server.ts:23-28
truncateMessage(message, maxLength) ==
  IF Len(message) > maxLength
    THEN SubSeq(message, 1, maxLength - 3) \o <<".", ".", ".">>
    ELSE message

\* message.content of the message with this id, as server.ts:82 and 309 read
\* it: the text of the event and no quotation
RawContent(id) == [quoted |-> FALSE, quote |-> << >>, content |-> id]

\* server.ts:309-325, the local msgContent: for a reply to the bot, the
\* truncated quotation of the original message before the text of the event
MsgContent(m, id, original) ==
  IF m.ref = "bot"
    THEN [ quoted  |-> TRUE,
           quote   |-> truncateMessage(original, MESSAGE_REPLY_TRUNCATE_LENGTH),
           content |-> id ]
    ELSE RawContent(id)

\* Variant of shouldRespondInChannel that answers nowhere when
\* RESPONSE_CHANNEL_ID is not set
shouldRespondInChannel_UnsetIsNowhere(channelId) ==
  IF cfg.responseChannel = None THEN FALSE ELSE channelId = cfg.responseChannel

\* Variant of shouldRespondInChannel that ignores RESPONSE_CHANNEL_ID
shouldRespondInChannel_Everywhere(channelId) == TRUE

\* server.ts:161-168
shouldRespondInChannel(channelId) ==
  IF cfg.responseChannel = None THEN TRUE ELSE channelId = cfg.responseChannel

\* Map.delete(key) on a map held as a function
MapDelete(map, key) == [k \in DOMAIN map \ {key} |-> map[k]]

\* Map.set(key, value)
MapSet(map, key, value) == [k \in DOMAIN map \cup {key} |-> IF k = key THEN value ELSE map[k]]

\* server.ts:84-93, the provenance prefix of one line of a batch
BatchPrefix(messageType) ==
  CASE messageType = MENTION -> "mentioned you"
    [] messageType = REPLY   -> "replied to you"
    [] messageType = DM      -> "sent you a DM"
    [] OTHER                 -> "author only"

\* server.ts:78-102, batchMessage: the count header and one numbered line per
\* buffered message, each with its prefix and the message whose content it quotes
BatchMessage(buffer) ==
  [ count |-> Len(buffer),
    lines |-> [ i \in 1..Len(buffer) |->
                  [ idx     |-> i,
                    prefix  |-> BatchPrefix(buffer[i].messageType),
                    message |-> buffer[i].message,
                    content |-> RawContent(buffer[i].message) ] ] ]

\* The ids of the messages of a batch, in the order of its lines
BatchItems(batchMessage) == [ i \in 1..batchMessage.count |-> batchMessage.lines[i].message ]

SeqToSet(s) == { s[i] : i \in 1..Len(s) }

\* Variant of SizeLimitReached with > in place of >=
SizeLimitReached_Above(buffer) == Len(buffer) > MESSAGE_BATCH_SIZE

\* server.ts:141, the size test of addMessageToBatch
SizeLimitReached(buffer) == Len(buffer) >= MESSAGE_BATCH_SIZE

\* The two timer structures an operation changes together: the Map of
\* server.ts:56 and the runtime's list of armed timeouts.
Timers == [map |-> channelBatchTimers, live |-> timeouts]

\* Variant of ArmTimer without the channelBatchTimers.set of server.ts:157
ArmTimer_ForgetHandle(t, channelId, handle) ==
  LET cleared == IF channelId \in DOMAIN t.map THEN MapDelete(t.live, t.map[channelId])
                                               ELSE t.live
  IN  [ map  |-> t.map,
        live |-> MapSet(cleared, handle,
                        [channelId |-> channelId, left |-> MESSAGE_BATCH_TIMEOUT_MS]) ]

\* Variant of ArmTimer without the clearTimeout of server.ts:148-150
ArmTimer_NoClear(t, channelId, handle) ==
  [ map  |-> MapSet(t.map, channelId, handle),
    live |-> MapSet(t.live, handle, [channelId |-> channelId, left |-> MESSAGE_BATCH_TIMEOUT_MS]) ]

\* server.ts:147-157: clearTimeout of the channel's pending timer, setTimeout of
\* a new one, channelBatchTimers.set. The handle of the new timeout is named
\* after the message whose enqueue arms it.
ArmTimer(t, channelId, handle) ==
  LET cleared == IF channelId \in DOMAIN t.map THEN MapDelete(t.live, t.map[channelId])
                                               ELSE t.live
  IN  [ map  |-> MapSet(t.map, channelId, handle),
        live |-> MapSet(cleared, handle,
                        [channelId |-> channelId, left |-> MESSAGE_BATCH_TIMEOUT_MS]) ]

\* server.ts:60-65: clearTimeout(timer) and channelBatchTimers.delete(channelId)
ClearTimer(t, channelId) ==
  IF channelId \in DOMAIN t.map
    THEN [ map |-> MapDelete(t.map, channelId), live |-> MapDelete(t.live, t.map[channelId]) ]
    ELSE t

\* The drains of a channel that have started and not completed
InflightDrains(channelId) == { d \in drains : d.channelId = channelId }

\* The ids of the messages in a channel's buffer
Buffered(channelId) ==
  IF channelId \in DOMAIN channelMessageBuffers
    THEN { channelMessageBuffers[channelId][i].message :
             i \in 1..Len(channelMessageBuffers[channelId]) }
    ELSE {}



\* ------------------------------------------------------------------- Init
\* The state once the module has loaded and app.listen has called
\* startRandomEventTimer (server.ts:352-356): both maps empty (server.ts:55-56),
\* no event received; a disabled timer has returned at server.ts:196-199.
InitState ==
  /\ received = 0
  /\ handlers = {}
  /\ channelMessageBuffers = << >>
  /\ channelBatchTimers = << >>
  /\ timeouts = << >>
  /\ drains = {}
  /\ discarded = {}
  /\ unhandled = FALSE
  /\ waiting = {}
  /\ window = [c \in Channels |-> << >>]
  /\ timerPc = IF cfg.enableTimer THEN "start" ELSE "off"
  /\ timerDelay = 0
  /\ timerChannel = FALSE

Init == cfg \in MsgConfigs /\ InitState

\* ------------------------------------------------------ drainMessageBatch
\* Variant of NewDrain that takes the first message of the buffer as context
NewDrain_FirstMessage(buffer, channelId, cause) ==
  [ channelId    |-> channelId,
    batchMessage |-> BatchMessage(buffer),
    lastMessage  |-> buffer[1].message,
    messageType  |-> buffer[1].messageType,
    canRespond   |-> shouldRespondInChannel(channelId),
    pc           |-> "backend",
    msg          |-> "",
    cause        |-> cause ]

\* server.ts:73-108: what a drain holds across its awaits. The payload is
\* built, and sendMessage is called, before the first await.
NewDrain(buffer, channelId, cause) ==
  [ channelId    |-> channelId,
    batchMessage |-> BatchMessage(buffer),
    lastMessage  |-> buffer[Len(buffer)].message,
    messageType  |-> buffer[Len(buffer)].messageType,
    canRespond   |-> shouldRespondInChannel(channelId),
    pc           |-> "backend",
    msg          |-> "",
    cause        |-> cause ]

\* server.ts:58-108, drainMessageBatch up to `await sendMessage`: the timer is
\* cleared, an absent or empty buffer returns, otherwise the backend is called.
\* The buffer stays in channelMessageBuffers until line 121.
DrainStart(buffers, t, channelId, cause) ==
  LET cleared == ClearTimer(t, channelId) IN
  IF channelId \notin DOMAIN buffers \/ Len(buffers[channelId]) = 0
    THEN [ t |-> cleared, drains |-> drains, sent |-> {} ]
    ELSE LET d == NewDrain(buffers[channelId], channelId, cause)
         IN  [ t |-> cleared, drains |-> drains \cup {d},
               sent |-> SeqToSet(BatchItems(d.batchMessage)) ]

\* server.ts:120-121, channelMessageBuffers.delete(channelId) at the end of a drain
DrainEnd(d) ==
  /\ drains' = drains \ {d}
  /\ channelMessageBuffers' = MapDelete(channelMessageBuffers, d.channelId)

\* server.ts:108-121, sendMessage resolved with msg: the reply is sent when
\* msg is not empty and canRespond holds, otherwise the drain ends
DrainBackendReturn(d, msg) ==
  /\ d \in drains /\ d.pc = "backend"
  /\ IF msg # "" /\ d.canRespond
       THEN /\ drains' = (drains \ {d}) \cup {[d EXCEPT !.pc = "reply", !.msg = msg]}
            /\ UNCHANGED <<channelMessageBuffers, discarded>>
       ELSE /\ DrainEnd(d)
            /\ discarded' = IF msg # "" THEN discarded \cup {d.channelId} ELSE discarded
  /\ UNCHANGED <<cfg, unhandled, received, handlers, channelBatchTimers, timeouts,
                 waiting, window, timerVars>>

\* server.ts:116-121, sendMessage rejected: caught, the buffer deleted
DrainBackendThrow(d) ==
  /\ d \in drains /\ d.pc = "backend"
  /\ BackendMayReject
  /\ DrainEnd(d)
  /\ UNCHANGED <<cfg, unhandled, received, handlers, channelBatchTimers, timeouts,
                 discarded, waiting, window, timerVars>>

\* server.ts:111-121, lastMessage.reply settled (a rejection is caught)
DrainReplyDone(d, ok) ==
  /\ d \in drains /\ d.pc = "reply"
  /\ DrainEnd(d)
  /\ UNCHANGED <<cfg, unhandled, received, handlers, channelBatchTimers, timeouts,
                 discarded, waiting, window, timerVars>>

\* server.ts:152-155, the timeout callback: the timeout has fired, so it is no
\* longer armed; drainMessageBatch(channelId) runs up to its await
BatchTimeout(h) ==
  /\ h \in DOMAIN timeouts /\ timeouts[h].left = 0
  /\ LET c == timeouts[h].channelId
         r == DrainStart(channelMessageBuffers,
                         [map |-> channelBatchTimers, live |-> MapDelete(timeouts, h)],
                         c, "timeout")
     IN  /\ channelBatchTimers' = r.t.map
         /\ timeouts' = r.t.live
         /\ drains' = r.drains
         /\ waiting' = { w \in waiting : w.id \notin r.sent }
         /\ window' = [window EXCEPT ![c] = << >>]
  /\ UNCHANGED <<cfg, unhandled, received, handlers, channelMessageBuffers, discarded, timerVars>>

\* ------------------------------------------------------ addMessageToBatch
\* server.ts:124-158 and, through line 143, drainMessageBatch up to its await
addMessageToBatch(id, channelId, messageType) ==
  LET created == IF channelId \in DOMAIN channelMessageBuffers
                   THEN channelMessageBuffers
                   ELSE MapSet(channelMessageBuffers, channelId, << >>)
      pushed  == MapSet(created, channelId,
                        Append(created[channelId],
                               [message |-> id, messageType |-> messageType, age |-> 0]))
      full    == SizeLimitReached(pushed[channelId])
      r       == IF full THEN DrainStart(pushed, Timers, channelId, "size")
                         ELSE [ t |-> ArmTimer(Timers, channelId, id), drains |-> drains,
                                sent |-> {} ]
      entry   == [ id |-> id, channelId |-> channelId,
                   duringDrain |-> InflightDrains(channelId) # {} ]
  IN  /\ channelMessageBuffers' = pushed
      /\ channelBatchTimers' = r.t.map
      /\ timeouts' = r.t.live
      /\ drains' = r.drains
      /\ waiting' = { w \in waiting \cup {entry} : w.id \notin r.sent }
      /\ window' = [window EXCEPT ![channelId] =
                      IF full THEN << >>
                      ELSE IF channelId \in DOMAIN channelBatchTimers THEN Append(@, id)
                      ELSE <<id>>]


\* --------------------------------------------------- messageCreate handler
Ignored == [pc |-> "ignored", messageType |-> None, path |-> None]

\* server.ts:309-325 when the handler does not fetch: the label defaults to MENTION
AfterTyping(m) ==
  IF m.ref \in {"bot", "other"}
    THEN [pc |-> "fetch", messageType |-> None, path |-> "mention"]
    ELSE [pc |-> "dispatch", messageType |-> MENTION, path |-> "mention"]

\* Variant of AfterFetch that labels every reply to another author MENTION
AfterFetch_OtherReplyIsMention(m) ==
  [ pc |-> "dispatch",
    messageType |-> IF m.ref = "bot" THEN REPLY ELSE MENTION,
    path |-> "mention" ]

\* server.ts:316-324, the label once the referenced message is fetched
AfterFetch(m) ==
  [ pc |-> "dispatch",
    messageType |-> IF m.ref = "bot" THEN REPLY
                    ELSE IF m.mentions THEN MENTION ELSE GENERIC,
    path |-> "mention" ]

\* Variant of HandlerEntry without the test of server.ts:266-270
HandlerEntry_NoSelfFilter(m) ==
  IF cfg.channelId # None /\ m.ch # cfg.channelId THEN Ignored
  ELSE IF m.author = "bot" /\ ~cfg.respondToBots THEN Ignored
  ELSE IF m.bang THEN Ignored
  ELSE IF m.ch \in DMChannels
    THEN IF cfg.respondToDMs
           THEN [pc |-> "dispatch", messageType |-> DM, path |-> "processAndSendMessage"]
           ELSE Ignored
  ELSE IF cfg.respondToMentions /\ (m.mentions \/ m.ref # "none")
    THEN IF shouldRespondInChannel(m.ch)
           THEN [pc |-> "typing", messageType |-> None, path |-> "mention"]
           ELSE AfterTyping(m)
  ELSE IF cfg.respondToGeneric
    THEN [pc |-> "dispatch", messageType |-> GENERIC, path |-> "processAndSendMessage"]
  ELSE Ignored

\* server.ts:260-348, the handler from its entry to its first await, or to the
\* dispatch of the message ("dispatch": addMessageToBatch or sendMessage comes next)
HandlerEntry(m) ==
  IF cfg.channelId # None /\ m.ch # cfg.channelId THEN Ignored
  ELSE IF m.author = "self" THEN Ignored
  ELSE IF m.author = "bot" /\ ~cfg.respondToBots THEN Ignored
  ELSE IF m.bang THEN Ignored
  ELSE IF m.ch \in DMChannels
    THEN IF cfg.respondToDMs
           THEN [pc |-> "dispatch", messageType |-> DM, path |-> "processAndSendMessage"]
           ELSE Ignored
  ELSE IF cfg.respondToMentions /\ (m.mentions \/ m.ref # "none")
    THEN IF shouldRespondInChannel(m.ch)
           THEN [pc |-> "typing", messageType |-> None, path |-> "mention"]
           ELSE AfterTyping(m)
  ELSE IF cfg.respondToGeneric
    THEN [pc |-> "dispatch", messageType |-> GENERIC, path |-> "processAndSendMessage"]
  ELSE Ignored

\* The handler of message id, at position `at`, with the other suspended
\* handlers `rest`: it has returned (ignored), it waits (typing, fetch), or it
\* dispatches the message: to the batch when batching is enabled
\* (server.ts:173-176, 328-331), to the backend otherwise (server.ts:180-181, 334).
Proceed(id, m, at, msgContent, rest) ==
  LET h == [ id          |-> id,
             message     |-> m,
             msgContent  |-> msgContent,
             pc          |-> at.pc,
             path        |-> at.path,
             messageType |-> at.messageType,
             canRespond  |-> shouldRespondInChannel(m.ch),
             msg         |-> "" ]
      batch == UNCHANGED <<channelMessageBuffers, channelBatchTimers, timeouts, drains,
                           waiting, window>>
  IN  CASE at.pc = "ignored" -> handlers' = rest /\ batch
        [] at.pc \in {"typing", "fetch"} -> handlers' = rest \cup {h} /\ batch
        [] at.pc = "dispatch" /\ cfg.batchEnabled ->
             handlers' = rest /\ addMessageToBatch(id, m.ch, at.messageType)
        [] at.pc = "dispatch" /\ ~cfg.batchEnabled ->
             handlers' = rest \cup {[h EXCEPT !.pc = "backend"]} /\ batch

\* server.ts:259-349, a messageCreate event
MessageCreate(m) ==
  /\ received < MaxEvents
  /\ received' = received + 1
  /\ Proceed(received + 1, m, HandlerEntry(m), RawContent(received + 1), handlers)
  /\ UNCHANGED <<cfg, unhandled, discarded, timerVars>>

\* A rejection that nothing catches leaves the async handler: the runtime
\* reports an unhandled rejection (and, depending on its version, warns or
\* ends the process; ending it is the behaviour that takes no further step)
Escapes(h) ==
  /\ handlers' = handlers \ {h}
  /\ unhandled' = TRUE
  /\ UNCHANGED <<channelMessageBuffers, channelBatchTimers, timeouts, drains, waiting, window>>

\* server.ts:304, sendTyping settled; no try encloses the await
TypingDone(h, ok) ==
  /\ h \in handlers /\ h.pc = "typing"
  /\ IF ok THEN Proceed(h.id, h.message, AfterTyping(h.message), RawContent(h.id),
                        handlers \ {h})
                /\ UNCHANGED unhandled
           ELSE Escapes(h)
  /\ UNCHANGED <<cfg, received, discarded, timerVars>>

\* server.ts:314-325, messages.fetch settled, with the content of the original
\* message when it resolved; no try encloses the await
FetchDone(h, ok, original) ==
  /\ h \in handlers /\ h.pc = "fetch"
  /\ IF ok THEN Proceed(h.id, h.message, AfterFetch(h.message),
                        MsgContent(h.message, h.id, original), handlers \ {h})
                /\ UNCHANGED unhandled
           ELSE Escapes(h)
  /\ UNCHANGED <<cfg, received, discarded, timerVars>>

\* Whether a rejection of sendMessage or message.reply is caught:
\* processAndSendMessage has a try (server.ts:179-190), the mention path of the
\* handler has none (server.ts:333-340)
Caught(path) == path = "processAndSendMessage"

\* server.ts:181-187 and 334-339, sendMessage resolved with msg
BackendReturn(h, msg) ==
  /\ h \in handlers /\ h.pc = "backend"
  /\ IF msg # "" /\ h.canRespond
       THEN /\ handlers' = (handlers \ {h}) \cup {[h EXCEPT !.pc = "reply", !.msg = msg]}
            /\ UNCHANGED discarded
       ELSE /\ handlers' = handlers \ {h}
            /\ discarded' = IF msg # "" THEN discarded \cup {h.message.ch} ELSE discarded
  /\ UNCHANGED <<cfg, unhandled, received, channelMessageBuffers, channelBatchTimers,
                 timeouts, drains, waiting, window, timerVars>>

\* server.ts:181 and 334, sendMessage rejected
BackendThrow(h) ==
  /\ h \in handlers /\ h.pc = "backend"
  /\ BackendMayReject
  /\ handlers' = handlers \ {h}
  /\ unhandled' = (unhandled \/ ~Caught(h.path))
  /\ UNCHANGED <<cfg, received, channelMessageBuffers, channelBatchTimers, timeouts,
                 drains, discarded, waiting, window, timerVars>>

\* server.ts:183 and 336, message.reply settled
ReplyDone(h, ok) ==
  /\ h \in handlers /\ h.pc = "reply"
  /\ handlers' = handlers \ {h}
  /\ unhandled' = (unhandled \/ (~ok /\ ~Caught(h.path)))
  /\ UNCHANGED <<cfg, received, channelMessageBuffers, channelBatchTimers, timeouts,
                 drains, discarded, waiting, window, timerVars>>

\* server.ts:181 and 334, the arguments of sendMessage on the immediate path:
\* the message, its label, canRespond and no batch text, so that the text is
\* message.content
ImmediateRequest(id, messageType, canRespond) ==
  [ message     |-> id,
    messageType |-> messageType,
    canRespond  |-> canRespond,
    batched     |-> FALSE,
    lines       |-> << >>,
    content     |-> RawContent(id) ]

\* server.ts:108, the arguments of sendMessage in a drain: the last message,
\* its label, canRespond and batchMessage
DrainRequest(d) ==
  [ message     |-> d.lastMessage,
    messageType |-> d.messageType,
    canRespond  |-> d.canRespond,
    batched     |-> TRUE,
    lines       |-> d.batchMessage.lines,
    content     |-> RawContent(d.lastMessage) ]

\* The text sendMessage (./messages, server.ts:4) sends the backend: the batch
\* text when it is given one, the content of the message otherwise
BackendText(request) == IF request.batched THEN request.lines ELSE request.content

\* One tick of time passes. A timeout runs when its delay has passed, so no
\* tick passes while one is due. BatchedMessage.timestamp (server.ts:135) is
\* held as the age of the entry, Date.now() - timestamp, counted up to AgeCap.
Tick ==
  /\ \A h \in DOMAIN timeouts : timeouts[h].left > 0
  /\ timeouts' = [h \in DOMAIN timeouts |-> [timeouts[h] EXCEPT !.left = @ - 1]]
  /\ channelMessageBuffers' =
       [ c \in DOMAIN channelMessageBuffers |->
           [ i \in 1..Len(channelMessageBuffers[c]) |->
               [channelMessageBuffers[c][i] EXCEPT !.age = IF @ < AgeCap THEN @ + 1 ELSE @] ] ]
  /\ UNCHANGED <<cfg, unhandled, received, handlers, channelBatchTimers, drains, discarded,
                 waiting, window, timerVars>>

\* -------------------------------------------------- startRandomEventTimer
\* server.ts:204, 1 + Math.floor(Math.random() * (TIMER_INTERVAL_MINUTES - 1)),
\* with Math.random() = n / RandDen
RandomMinutes(n) == 1 + ((n * (cfg.timerInterval - 1)) \div RandDen)

\* server.ts:195-211, 252-254: startRandomEventTimer, called at startup and by
\* the settle timeout; it draws the delay and arms the timer
StartRandomEventTimer(n) ==
  /\ timerPc \in {"start", "settle"}
  /\ cfg.enableTimer
  /\ timerPc' = "armed"
  /\ timerDelay' = RandomMinutes(n)
  /\ timerChannel' = FALSE
  /\ UNCHANGED <<cfg, unhandled, msgVars>>

\* A minute of the delay passes
TimerMinute ==
  /\ timerPc = "armed" /\ timerDelay > 0
  /\ timerDelay' = timerDelay - 1
  /\ UNCHANGED <<cfg, unhandled, msgVars, timerPc, timerChannel>>

\* server.ts:211-231, 247-254: the timer callback up to its first await. The
\* draw n / RandDen < FIRING_PROBABILITY decides whether the event fires; if
\* not, the settle timeout is armed at once.
TimerFire(n) ==
  /\ timerPc = "armed" /\ timerDelay <= 0
  /\ timerPc' = IF n < cfg.firingProbability
                  THEN IF cfg.channelId # None THEN "fetch" ELSE "backend"
                  ELSE "settle"
  /\ UNCHANGED <<cfg, unhandled, msgVars, timerDelay, timerChannel>>

\* server.ts:222-234, client.channels.fetch settled: a channel that can send, a
\* channel that cannot (or none), or a rejection, which is caught; then
\* sendTimerMessage(channel) is called
TimerFetchDone(outcome) ==
  /\ timerPc = "fetch"
  /\ timerChannel' = (outcome = "text")
  /\ timerPc' = "backend"
  /\ UNCHANGED <<cfg, unhandled, msgVars, timerDelay>>

\* server.ts:234-254, sendTimerMessage resolved with msg: the message is sent
\* when it is not empty and the channel is defined, else the settle timeout is armed
TimerBackendReturn(msg) ==
  /\ timerPc = "backend"
  /\ timerPc' = IF msg # "" /\ timerChannel THEN "send" ELSE "settle"
  /\ UNCHANGED <<cfg, unhandled, msgVars, timerDelay, timerChannel>>

\* server.ts:234, sendTimerMessage rejected: no try encloses the await, the
\* rejection leaves the callback and line 252 is not reached
TimerBackendThrow ==
  /\ timerPc = "backend"
  /\ BackendMayReject
  /\ timerPc' = "dead"
  /\ unhandled' = TRUE
  /\ UNCHANGED <<cfg, msgVars, timerDelay, timerChannel>>

\* server.ts:238-254, channel.send settled (a rejection is caught); the settle
\* timeout is armed
TimerSendDone(ok) ==
  /\ timerPc = "send"
  /\ timerPc' = "settle"
  /\ UNCHANGED <<cfg, unhandled, msgVars, timerDelay, timerChannel>>

InitTimer == cfg \in TimerConfigs /\ InitState

NextTimer ==
  \/ \E n \in 0..(RandDen - 1) : StartRandomEventTimer(n)
  \/ TimerMinute
  \/ \E n \in 0..(RandDen - 1) : TimerFire(n)
  \/ \E outcome \in {"text", "other", "rejected"} : TimerFetchDone(outcome)
  \/ \E msg \in Responses : TimerBackendReturn(msg)
  \/ TimerBackendThrow
  \/ \E ok \in BOOLEAN : TimerSendDone(ok)

SpecTimer == InitTimer /\ [][NextTimer]_vars

Next ==
  \/ \E m \in Messages : MessageCreate(m)
  \/ \E h \in handlers, ok \in BOOLEAN : TypingDone(h, ok)
  \/ \E h \in handlers, ok \in BOOLEAN, original \in Originals : FetchDone(h, ok, original)
  \/ \E h \in handlers, msg \in Responses : BackendReturn(h, msg)
  \/ \E h \in handlers : BackendThrow(h)
  \/ \E h \in handlers, ok \in BOOLEAN : ReplyDone(h, ok)
  \/ \E h \in DOMAIN timeouts : BatchTimeout(h)
  \/ \E d \in drains, msg \in Responses : DrainBackendReturn(d, msg)
  \/ \E d \in drains : DrainBackendThrow(d)
  \/ \E d \in drains, ok \in BOOLEAN : DrainReplyDone(d, ok)
  \/ Tick

Spec == Init /\ [][Next]_vars

\* ------------------------------------------------ the classifier, in full
\* Configurations of the classifier specification: the mention toggle and the
\* generic toggle in every combination; DMs are answered, bots are not,
\* messages are dispatched at once (no batching), no listening channel and no
\* response channel, the timer is off.
ClassifyConfigs ==
  { c \in Configs :
      /\ ~c.batchEnabled
      /\ c.channelId = None /\ c.responseChannel = None
      /\ c.respondToDMs /\ ~c.respondToBots
      /\ ~c.enableTimer /\ c.timerInterval = 3 /\ c.firingProbability = 1 }

\* The messages the environment delivers under SpecClassify, all written by a
\* user and none starting with '!': in the guild channel every combination of
\* mention and reference, and a DM that mentions the bot and replies to it.
ClassifyMessages ==
  { m \in AllMessages :
      /\ m.author = "user" /\ ~m.bang
      /\ m.ch \in DMChannels => (m.mentions /\ m.ref = "bot") }

\* The content of the original message that a fetch returns under SpecClassify
ClassifyOriginals == { Str(2) }

InitClassify == cfg \in ClassifyConfigs /\ InitState

\* A message can arrive at any time, also while the handlers of earlier
\* messages are suspended at an await.
NextClassify ==
  \/ \E m \in ClassifyMessages : MessageCreate(m)
  \/ \E h \in handlers, ok \in BOOLEAN : TypingDone(h, ok)
  \/ \E h \in handlers, ok \in BOOLEAN, original \in ClassifyOriginals :
       FetchDone(h, ok, original)
  \/ \E h \in handlers, msg \in Responses : BackendReturn(h, msg)
  \/ \E h \in handlers : BackendThrow(h)
  \/ \E h \in handlers, ok \in BOOLEAN : ReplyDone(h, ok)

SpecClassify == InitClassify /\ [][NextClassify]_vars

\* ------------------------------------------- the bot's own messages, in full
\* Configurations of the own-message specification: every combination of the
\* response toggles, with and without batching; no listening channel and no
\* response channel, the timer is off.
OwnConfigs ==
  { c \in Configs :
      /\ c.channelId = None /\ c.responseChannel = None
      /\ ~c.enableTimer /\ c.timerInterval = 3 /\ c.firingProbability = 1 }

\* The messages the environment delivers under SpecOwn: every message the bot
\* itself can have written (its replies and timer messages come back as
\* messageCreate events), a plain DM of a user and a user's mention in c1.
OwnMessages ==
  { m \in AllMessages : m.author = "self" }
    \cup { m \in AllMessages :
             /\ m.author = "user" /\ ~m.bang /\ m.ref = "none"
             /\ (m.mentions <=> m.ch \notin DMChannels) }

InitOwn == cfg \in OwnConfigs /\ InitState

NextOwn ==
  \/ \E m \in OwnMessages : MessageCreate(m)
  \/ \E h \in handlers, ok \in BOOLEAN : TypingDone(h, ok)
  \/ \E h \in handlers, msg \in Responses : BackendReturn(h, msg)
  \/ \E h \in handlers : BackendThrow(h)
  \/ \E h \in handlers, ok \in BOOLEAN : ReplyDone(h, ok)
  \/ \E h \in DOMAIN timeouts : BatchTimeout(h)
  \/ \E d \in drains, msg \in Responses : DrainBackendReturn(d, msg)
  \/ \E d \in drains : DrainBackendThrow(d)
  \/ \E d \in drains, ok \in BOOLEAN : DrainReplyDone(d, ok)
  \/ Tick

SpecOwn == InitOwn /\ [][NextOwn]_vars


\* ================================================================= claims
DrainItems(d) == SeqToSet(BatchItems(d.batchMessage))

\* A step pushes a message on the buffer of channel c
Pushed(c) ==
  /\ c \in DOMAIN channelMessageBuffers'
  /\ Len(channelMessageBuffers'[c]) =
       (IF c \in DOMAIN channelMessageBuffers THEN Len(channelMessageBuffers[c]) ELSE 0) + 1

\* A timeout of channel c is armed, in the map or in the runtime
TimerPending(c) ==
  \/ c \in DOMAIN channelBatchTimers
  \/ \E h \in DOMAIN timeouts : timeouts[h].channelId = c

\* C1: while the backend call of a drain of channel c is in flight, the buffer
\* map holds no entry for c that carries the messages being drained (the drain
\* has detached the buffer before it called the backend).
C1_BufferDetachedBeforeBackend ==
  \A d \in drains : d.pc = "backend" => Buffered(d.channelId) \cap DrainItems(d) = {}

\* C2: a message enqueued to channel c while a drain of c is in flight, and
\* delivered by no drain yet, is in c's buffer (it is not discarded when the
\* drain completes), and that buffer holds no message of a drain in flight (it
\* is a fresh buffer, not the one being drained).
C2_EnqueueDuringDrainStartsFreshCycle ==
  \A w \in waiting : w.duringDrain =>
    /\ w.id \in Buffered(w.channelId)
    /\ \A d \in InflightDrains(w.channelId) : Buffered(w.channelId) \cap DrainItems(d) = {}

\* C3: for every channel, at most one drain has started and not completed.
C3_OneDrainInFlightPerChannel ==
  \A c \in Channels : Cardinality(InflightDrains(c)) <= 1

\* C4: when the timeout of channel c fires after a run of N < MESSAGE_BATCH_SIZE
\* enqueues to c, each made while the timeout armed by the one before was
\* pending, the firing starts one drain, whose payload lists exactly those N
\* messages in arrival order, and none of them is in the payload of another drain.
C4_OneDrainPerTimeoutWindow ==
  [][ \A h \in 1..MaxEvents :
        (BatchTimeout(h) /\ Len(window[timeouts[h].channelId]) < MESSAGE_BATCH_SIZE) =>
          /\ \E d \in drains' \ drains :
               BatchItems(d.batchMessage) = window[timeouts[h].channelId]
          /\ \A d \in drains : DrainItems(d) \cap SeqToSet(window[timeouts[h].channelId]) = {}
    ]_vars

\* C5: when an enqueue makes the buffer of channel c reach MESSAGE_BATCH_SIZE
\* entries, the same step starts a size drain of c whose payload lists exactly
\* those MESSAGE_BATCH_SIZE messages, and leaves no timeout pending for c.
C5_SizeLimitDrainsAtOnce ==
  [][ \A c \in Channels :
        (Pushed(c) /\ Len(channelMessageBuffers'[c]) = MESSAGE_BATCH_SIZE) =>
          /\ \E d \in drains' \ drains :
               /\ d.channelId = c /\ d.cause = "size"
               /\ d.batchMessage.count = MESSAGE_BATCH_SIZE
               /\ BatchItems(d.batchMessage) =
                    [i \in 1..MESSAGE_BATCH_SIZE |-> channelMessageBuffers'[c][i].message]
          /\ c \notin DOMAIN channelBatchTimers'
          /\ \A h \in DOMAIN timeouts' : timeouts'[h].channelId # c
    ]_vars

\* A size drain of MESSAGE_BATCH_SIZE messages has just started, no timeout pending
C5_Witness ==
  \E d \in drains :
    /\ d.cause = "size" /\ d.pc = "backend" /\ d.batchMessage.count = MESSAGE_BATCH_SIZE
    /\ d.channelId \in DOMAIN channelMessageBuffers
    /\ Len(channelMessageBuffers[d.channelId]) = MESSAGE_BATCH_SIZE
    /\ ~TimerPending(d.channelId)

\* C6: whenever a drain timeout is pending for a channel, the channel's buffer
\* exists and is not empty (so no timeout is pending for an empty or absent buffer).
C6_TimerImpliesBuffer ==
  \A c \in Channels :
    TimerPending(c) =>
      c \in DOMAIN channelMessageBuffers /\ Len(channelMessageBuffers[c]) > 0

\* C7: when a response channel is configured, no reply is sent in any other
\* channel, neither by a batch drain nor by an immediate dispatch.
C7_NoReplyOutsideResponseChannel ==
  \A c \in Channels :
    (cfg.responseChannel # None /\ c # cfg.responseChannel) =>
      /\ \A d \in drains : d.channelId = c => d.pc # "reply"
      /\ \A h \in handlers : h.message.ch = c => h.pc # "reply"

\* A drain got a non-empty response for a channel other than the response
\* channel and did not send it
C7_Witness ==
  /\ cfg.batchEnabled /\ cfg.responseChannel # None
  /\ \E c \in discarded : c # cfg.responseChannel

\* C8: a timeout drain starts exactly MESSAGE_BATCH_TIMEOUT_MS after the last
\* enqueue to its channel: the age of the newest buffer entry is the timeout,
\* whatever the age of the older entries.
C8_TimeoutCountsFromLastEnqueue ==
  [][ \A h \in 1..MaxEvents :
        (BatchTimeout(h) /\ drains' # drains) =>
          LET buffer == channelMessageBuffers[timeouts[h].channelId]
          IN  buffer[Len(buffer)].age = MESSAGE_BATCH_TIMEOUT_MS
    ]_vars

\* A timeout drain has just started on a buffer whose first entry is older
\* than the timeout and whose last entry is exactly as old as the timeout
C8_Witness ==
  \E d \in drains :
    /\ d.cause = "timeout" /\ d.pc = "backend" /\ d.batchMessage.count >= 2
    /\ d.channelId \in DOMAIN channelMessageBuffers
    /\ LET buffer == channelMessageBuffers[d.channelId]
       IN  /\ Len(buffer) = d.batchMessage.count
           /\ buffer[1].age > MESSAGE_BATCH_TIMEOUT_MS
           /\ buffer[Len(buffer)].age = MESSAGE_BATCH_TIMEOUT_MS

\* C9: no rejection of the backend or of a chat-platform operation leaves an
\* async callback uncaught.
C9_NoUnhandledRejection == ~unhandled

\* C10: a firing of the timer callback, whatever its outcome, ends with the
\* settle timeout armed, from which startRandomEventTimer runs again.
C10_FiringEndsInSettle ==
  [][ (timerPc \in {"fetch", "backend", "send"}) =>
        (timerPc' \in {"fetch", "backend", "send", "settle"}) ]_vars

\* C11: the messages of one channel are enqueued and drained in arrival order
\* (message ids count arrivals): the ids in every buffer and in every payload
\* in flight ascend, and no buffered message arrived before a message of its
\* channel that a drain has already taken.
C11_ArrivalOrderKept ==
  /\ \A c \in DOMAIN channelMessageBuffers :
       \A i, j \in 1..Len(channelMessageBuffers[c]) :
         i < j => channelMessageBuffers[c][i].message < channelMessageBuffers[c][j].message
  /\ \A d \in drains :
       \A i, j \in 1..d.batchMessage.count :
         i < j => BatchItems(d.batchMessage)[i] < BatchItems(d.batchMessage)[j]

\* A handler has passed its message on to the backend
Dispatched(h) == h.pc \in {"backend", "reply"}

\* The label by the priority rules as claim C12 states them
ClaimLabel(m) ==
  IF m.ch \in DMChannels THEN DM
  ELSE IF m.ref = "bot" THEN REPLY
  ELSE IF m.mentions \/ m.ref # "none" THEN MENTION
  ELSE GENERIC

\* C12 as stated: every dispatched message carries the label of the priority
\* rules: DM without a guild, else REPLY for a reply to the bot, else MENTION
\* for a mention or a reply to another author, else GENERIC.
C12_ClassifierPriorityRules ==
  \A h \in handlers : Dispatched(h) => h.messageType = ClaimLabel(h.message)

\* C12 as amended: DM without a guild; else, with the mention toggle on and a
\* mention or a reference: REPLY for a reply to the bot, for a reply to another
\* author MENTION if the message mentions the bot and GENERIC if not, MENTION
\* otherwise; every other dispatched message GENERIC.
C12_ClassifierRulesAmended ==
  \A h \in handlers :
    Dispatched(h) =>
      h.messageType =
        (IF h.message.ch \in DMChannels THEN DM
         ELSE IF cfg.respondToMentions /\ (h.message.mentions \/ h.message.ref # "none")
           THEN IF h.message.ref = "bot" THEN REPLY
                ELSE IF h.message.ref = "other"
                  THEN (IF h.message.mentions THEN MENTION ELSE GENERIC)
                ELSE MENTION
         ELSE GENERIC)

\* A reply to another author that does not mention the bot went through the
\* fetch of the mention path and was dispatched as GENERIC
C12_Witness ==
  \E h \in handlers :
    /\ Dispatched(h) /\ h.path = "mention"
    /\ h.message.ref = "other" /\ ~h.message.mentions
    /\ h.messageType = GENERIC

\* C13: for a message labelled REPLY, the text that reaches the backend carries
\* the quotation of the original message, truncated to at most
\* MESSAGE_REPLY_TRUNCATE_LENGTH characters, before the text of the event: on
\* the immediate path the request's text is the handler's msgContent, on the
\* batched path every "replied to you" line of the payload is quoted.
C13_ReplyPayloadRewritten ==
  /\ \A h \in handlers :
       (h.pc = "backend" /\ h.messageType = REPLY) =>
         /\ h.msgContent.quoted
         /\ Len(h.msgContent.quote) <= MESSAGE_REPLY_TRUNCATE_LENGTH
         /\ BackendText(ImmediateRequest(h.id, h.messageType, h.canRespond)) = h.msgContent
  /\ \A d \in drains :
       \A i \in 1..d.batchMessage.count :
         BackendText(DrainRequest(d))[i].prefix = BatchPrefix(REPLY) =>
           BackendText(DrainRequest(d))[i].content.quoted

\* C14: a drain whose buffer holds exactly one message sends the backend the
\* request that the immediate dispatch of that message sends: the same context,
\* label and canRespond, and the raw text with no count header and no
\* numbered line.
C14_SingleItemDrainEqualsImmediate ==
  \A d \in drains :
    (d.pc = "backend" /\ d.batchMessage.count = 1) =>
      /\ DrainRequest(d) =
           ImmediateRequest(d.lastMessage, d.messageType, shouldRespondInChannel(d.channelId))
      /\ BackendText(DrainRequest(d)) = RawContent(d.lastMessage)

\* C15: a drain of channel c whose backend call or reply fails ends caught,
\* and the step that ends it leaves c with no buffer and no pending timeout,
\* so that the next enqueue to c starts a buffer of its own message only.
C15_FailedDrainLeavesNothing ==
  [][ \A d \in drains :
        (DrainBackendThrow(d) \/ DrainReplyDone(d, FALSE)) =>
          /\ unhandled' = unhandled
          /\ d \notin drains'
          /\ d.channelId \notin DOMAIN channelMessageBuffers'
          /\ d.channelId \notin DOMAIN channelBatchTimers'
          /\ \A h \in DOMAIN timeouts' : timeouts'[h].channelId # d.channelId
    ]_vars

\* The timeouts armed for channel c and neither fired nor cleared
LiveTimeouts(c) == { h \in DOMAIN timeouts : timeouts[h].channelId = c }

\* C16: in every reachable state a channel has at most one pending drain
\* timeout, counting every armed timeout and not only the handle in
\* channelBatchTimers (the buffers are the values of a map keyed by channel,
\* so a channel has at most one).
C16_OnePendingTimerPerChannel ==
  \A c \in Channels : Cardinality(LiveTimeouts(c)) <= 1

\* Two enqueues to a channel have each armed a timeout, and one is pending
C16_Witness ==
  \E c \in Channels :
    /\ Len(window[c]) >= 2
    /\ c \in DOMAIN channelBatchTimers
    /\ LiveTimeouts(c) = {channelBatchTimers[c]}

\* C17: whenever startRandomEventTimer arms the timer, the delay it draws is
\* at least 1 minute, for every TIMER_INTERVAL_MINUTES (1 or less included),
\* and below TIMER_INTERVAL_MINUTES when that leaves room above 1 minute.
C17_DelayAtLeastOneMinute ==
  [][ (timerPc # "armed" /\ timerPc' = "armed") =>
        /\ timerDelay' >= 1
        /\ (cfg.timerInterval > 1 => timerDelay' < cfg.timerInterval)
    ]_vars

\* CanRespond as the claim states it: every channel when no response channel
\* is configured, else exactly the configured one
CanRespond(channelKey) ==
  cfg.responseChannel = None \/ channelKey = cfg.responseChannel

\* C18: shouldRespondInChannel is CanRespond on every channel key, and every
\* dispatch path decides by it: the flag of each drain, the flag of each
\* immediate dispatch, and the typing indicator of the mention path.
C18_CanRespondOnEveryPath ==
  /\ \A c \in Channels : shouldRespondInChannel(c) <=> CanRespond(c)
  /\ \A d \in drains :
       /\ d.canRespond <=> CanRespond(d.channelId)
       /\ DrainRequest(d).canRespond <=> CanRespond(d.channelId)
       /\ d.pc = "reply" => CanRespond(d.channelId)
  /\ \A h \in handlers :
       /\ h.pc = "typing" => CanRespond(h.message.ch)
       /\ Dispatched(h) =>
            (ImmediateRequest(h.id, h.messageType, h.canRespond).canRespond
               <=> CanRespond(h.message.ch))
       /\ h.pc = "reply" => CanRespond(h.message.ch)

\* With a response channel configured, a drain of that channel that may
\* respond and a drain of another channel that may not are in flight together
C18_Witness ==
  /\ cfg.responseChannel # None
  /\ \E d1, d2 \in drains :
       /\ d1.channelId = cfg.responseChannel /\ d1.canRespond
       /\ d2.channelId # cfg.responseChannel /\ ~d2.canRespond

\* C19: when the timer has fired, the draw has succeeded and the callback has
\* no channel to send to (CHANNEL_ID is not set, or the fetch gave no text
\* channel or failed), the backend call is followed by no send and no step of
\* the firing raises an exception.
C19_NoDestinationNoSendNoException ==
  [][ /\ timerPc = "fetch" => unhandled' = unhandled
      /\ (timerPc = "backend" /\ ~timerChannel) =>
           (timerPc' # "send" /\ unhandled' = unhandled)
    ]_vars

\* C20: a step starts at most one drain, and a drain that starts makes one
\* backend call, whose context is the last message of the channel's buffer,
\* whose label is that message's and whose flag is CanRespond of the channel;
\* when the call returns a non-empty response and the flag is set, that drain
\* sends one reply, to that last message, and otherwise none.
C20_OneCallOneReplyToLastMessage ==
  [][ /\ Cardinality(drains' \ drains) <= 1
      /\ \A d \in drains' \ drains :
           \/ /\ d.pc = "backend"
              /\ d.channelId \in DOMAIN channelMessageBuffers'
              /\ LET buffer == channelMessageBuffers'[d.channelId]
                 IN  /\ Len(buffer) > 0
                     /\ DrainRequest(d).message = buffer[Len(buffer)].message
                     /\ DrainRequest(d).messageType = buffer[Len(buffer)].messageType
                     /\ DrainRequest(d).canRespond <=> CanRespond(d.channelId)
           \/ /\ d.pc = "reply"
              /\ d.msg # "" /\ d.canRespond
              /\ [d EXCEPT !.pc = "backend", !.msg = ""] \in drains \ drains'
      /\ \A d \in drains \ drains', msg \in Responses :
           DrainBackendReturn(d, msg) =>
             IF msg # "" /\ CanRespond(d.channelId)
               THEN drains' \ drains = {[d EXCEPT !.pc = "reply", !.msg = msg]}
               ELSE drains' = drains \ {d}
    ]_vars

\* A drain of two or more messages is sending its reply to the last of them
C20_Witness ==
  \E d \in drains :
    /\ d.pc = "reply" /\ d.msg # "" /\ d.batchMessage.count >= 2
    /\ d.lastMessage = BatchItems(d.batchMessage)[d.batchMessage.count]
    /\ d.lastMessage # BatchItems(d.batchMessage)[1]

\* C21: with batching on, no buffered message is in the payload of more than
\* one backend call: the payloads of two drains that are in flight together
\* (each has made its call) have no message in common.
C21_NoMessageDeliveredTwice ==
  \A d1, d2 \in drains :
    d1 # d2 => DrainItems(d1) \cap DrainItems(d2) = {}

\* C22: a message labelled GENERIC is buffered or dispatched only when
\* RESPOND_TO_GENERIC is on, whatever the other toggles are.
C22_GenericOnlyWithGenericToggle ==
  /\ \A h \in handlers :
       (Dispatched(h) /\ h.messageType = GENERIC) => cfg.respondToGeneric
  /\ \A c \in DOMAIN channelMessageBuffers :
       \A i \in 1..Len(channelMessageBuffers[c]) :
         channelMessageBuffers[c][i].messageType = GENERIC => cfg.respondToGeneric

\* The messages written by the bot's own account
OwnAuthored == { m \in AllMessages : m.author = "self" }

\* C23: a message written by the bot's own account is never buffered and never
\* dispatched, whatever the toggles: a step that suspends a handler, pushes on
\* a buffer, arms a timeout or starts a drain is not the messageCreate event
\* of such a message, and no suspended handler holds one; so the echo of a
\* reply or of a timer message causes no backend call.
C23_OwnMessagesNeverReachBackend ==
  [][ /\ ~ UNCHANGED <<handlers, channelMessageBuffers, channelBatchTimers, timeouts, drains>>
           => \A m \in OwnAuthored : ~ MessageCreate(m)
      /\ \A h \in handlers' : h.message.author # "self"
    ]_vars

\* Every toggle is on and nothing has failed; messages 1 and 3 are buffered
\* for the DM channel, no tick has passed since, and message 2 is nowhere:
\* it was the bot's own (every other message of OwnMessages is dispatched
\* under these toggles) and was dropped
C23_Witness ==
  /\ cfg.batchEnabled /\ cfg.channelId = None
  /\ cfg.respondToDMs /\ cfg.respondToMentions /\ cfg.respondToGeneric
  /\ ~unhandled /\ handlers = {} /\ drains = {}
  /\ DOMAIN channelMessageBuffers = {"dm"}
  /\ Len(channelMessageBuffers["dm"]) = 2
  /\ channelMessageBuffers["dm"][1].message = 1 /\ channelMessageBuffers["dm"][1].age = 0
  /\ channelMessageBuffers["dm"][2].message = 3

====
